---- MODULE Spec2Model ----
(***************************************************************************)
(* Fleet coordination of the fleet_turtlebot4_navigation package: the      *)
(* failure detector, the election, the re-plan (partition and assign) and  *)
(* the occupancy scheduler of the two agent nodes,                         *)
(*   SlaveNavigationSimulator (simulated_slave_navigation_node.py)  "sim"  *)
(*   SlaveNavigationNode      (slave_navigation_node.py)            "nav"  *)
(* Every process is one rclpy node spun by a single-threaded executor:     *)
(* timer and subscription callbacks run one at a time on the main thread,  *)
(* and the simulator runs each motion on a worker thread of its own.       *)
(***************************************************************************)
EXTENDS Integers, Sequences, FiniteSets, TLC

(***************************************************************************)
(* Namespaces are strings; a string is the sequence of its character       *)
(* codes, 0 being the blank that str.strip() removes.                      *)
(***************************************************************************)
NsA == <<1>>
NsAB == <<1, 2>>
NsB == <<2>>
Namespaces == {NsA, NsAB, NsB}
NoNs == <<>>

\* self.heartbeat_timeout, in seconds
HeartbeatTimeout == 5
\* seconds that pass in one step of the clock
TickSeconds == 5
\* elapsed times are kept up to the first value the timeout no longer tells apart
AgeCap == HeartbeatTimeout + TickSeconds

\* worker threads of one process that are alive at the same time
MaxThreads == 1
\* the Leader's own current_waypoint_index is followed up to this value
MaxIndex == 2
\* dynamic_recalc_timer objects counted per process (the last value means "or more")
MaxTimers == 2

Labels == {1, 2, 3}

(***************************************************************************)
(* Python str ordering and sorted().                                       *)
(***************************************************************************)
RECURSIVE LexLess(_, _)
LexLess(a, b) ==
    IF b = <<>> THEN FALSE
    ELSE IF a = <<>> THEN TRUE
    ELSE IF Head(a) < Head(b) THEN TRUE
    ELSE IF Head(a) > Head(b) THEN FALSE
    ELSE LexLess(Tail(a), Tail(b))

RECURSIVE InsertSorted(_, _)
InsertSorted(x, sq) ==
    IF sq = <<>> THEN <<x>>
    ELSE IF LexLess(x, Head(sq)) THEN <<x>> \o sq
    ELSE <<Head(sq)>> \o InsertSorted(x, Tail(sq))

RECURSIVE Sorted(_)
Sorted(sq) ==
    IF sq = <<>> THEN <<>>
    ELSE InsertSorted(sq[Len(sq)], Sorted(SubSeq(sq, 1, Len(sq) - 1)))

RECURSIVE LStrip(_)
LStrip(str) ==
    IF str # <<>> /\ Head(str) = 0 THEN LStrip(Tail(str)) ELSE str

RECURSIVE RStrip(_)
RStrip(str) ==
    IF str # <<>> /\ str[Len(str)] = 0 THEN RStrip(SubSeq(str, 1, Len(str) - 1)) ELSE str

Strip(str) == RStrip(LStrip(str))

(***************************************************************************)
(* SlaveState objects and the dict active_slaves (insertion ordered).      *)
(***************************************************************************)
SlaveState(slave_ns) ==
    [slave_ns |-> slave_ns,
     assigned_waypoints |-> <<>>,
     current_waypoint_index |-> 0,
     last_seen_time |-> AgeCap,
     has_initial_position |-> FALSE,
     initial_x |-> 0,
     waiting |-> FALSE]

Keys(d) == [i \in 1..Len(d) |-> d[i].slave_ns]
HasKey(d, k) == \E i \in 1..Len(d) : d[i].slave_ns = k
IndexOf(d, k) == CHOOSE i \in 1..Len(d) : d[i].slave_ns = k
Get(d, k) == d[IndexOf(d, k)]
Put(d, k, v) == IF HasKey(d, k) THEN [d EXCEPT ![IndexOf(d, k)] = v] ELSE Append(d, v)
Del(d, k) == SelectSeq(d, LAMBDA r : r.slave_ns # k)

(***************************************************************************)
(* Route graphs.  A node's label is a number and its position is x = label *)
(* on a line; an edge is a pair <<from, to>>.                              *)
(***************************************************************************)
TriGraph == [nodes |-> {1, 2, 3}, edges |-> {<<1, 2>>, <<2, 3>>, <<3, 1>>}]
PairGraph == [nodes |-> {2, 3}, edges |-> {<<2, 3>>, <<3, 2>>}]
Graphs == {TriGraph, PairGraph}
\* --initial_node_label of the simulator, --initial_x of the motion-stack node
InitialNodeLabel == 1

Dist(a, b) == IF a < b THEN b - a ELSE a - b

\* the index of the start position nearest to node v, the lowest index on a tie
NearestStart(v, starts) ==
    CHOOSE i \in 1..Len(starts) :
        \A j \in 1..Len(starts) :
            \/ Dist(v, starts[i]) < Dist(v, starts[j])
            \/ Dist(v, starts[i]) = Dist(v, starts[j]) /\ i <= j

Induced(g, vs) ==
    [nodes |-> vs, edges |-> {e \in g.edges : e[1] \in vs /\ e[2] \in vs}]

\* partition_graph(full_graph, num_partitions, start_positions)
PartitionGraph(g, k, starts) ==
    IF k < 1 \/ k > Cardinality(g.nodes) \/ Len(starts) # k
    THEN [ok |-> FALSE, subgraphs |-> <<>>]
    ELSE LET group(i) == {v \in g.nodes : NearestStart(v, starts) = i}
             all == [i \in 1..k |-> Induced(g, group(i))]
         IN [ok |-> TRUE, subgraphs |-> SelectSeq(all, LAMBDA sg : sg.nodes # {})]

MinOf(S) == CHOOSE x \in S : \A y \in S : x <= y

RECURSIVE Walk(_, _, _, _)
Walk(sg, cur, acc, fuel) ==
    LET next == {e[2] : e \in {f \in sg.edges : f[1] = cur}}
    IN IF next = {} \/ fuel = 0 THEN <<>>
       ELSE LET nx == MinOf(next)
            IN IF nx = acc[1] THEN Append(acc, nx)
               ELSE Walk(sg, nx, Append(acc, nx), fuel - 1)

\* calculate_dcpp_route(waypoints, subgraph, logger): the closed route over the
\* sub-graph from its first waypoint; no route when the sub-graph has no circuit
DcppRoute(sg) ==
    IF sg.nodes = {} \/ sg.edges = {} THEN [ok |-> FALSE, route |-> <<>>]
    ELSE LET r == Walk(sg, MinOf(sg.nodes), <<MinOf(sg.nodes)>>, Cardinality(sg.edges))
         IN [ok |-> r # <<>>, route |-> r]

VARIABLES
    node,      \* node[n]: the fields of the node object of process n, and its threads
    masterUp,  \* the fleet's original master still publishes /master_heartbeat
    ev         \* the callback or thread step taken last and the process that took it

vars == <<node, masterUp, ev>>

(***************************************************************************)
(* The node object after __init__.  Elapsed times stand for time stamps:   *)
(* last_master_heartbeat and last_seen_time hold time.time() minus the     *)
(* stored stamp.  attrs names the attributes that only exist once some     *)
(* method has assigned them.                                               *)
(***************************************************************************)
\* a node object that starts with a label already reserved
NewNodeReserved(variant) ==
    [st |-> "running", variant |-> variant, main |-> "idle", lock |-> FALSE, exc |-> "none",
     master_alive |-> FALSE, last_master_heartbeat |-> 0, active_slaves |-> <<>>,
     navigation_graph |-> {}, initial_x |-> (variant = "nav"),
     occupied_nodes |-> {InitialNodeLabel}, partitioning_done |-> FALSE,
     attrs |-> IF variant = "sim" THEN {"current_waypoint_index"} ELSE {},
     current_waypoint_index |-> 0, assigned_waypoints |-> <<>>, waiting |-> FALSE,
     is_master |-> FALSE, dynamic_recalc_timer |-> 0, threads |-> <<>>, published |-> {},
     log |-> <<>>]

\* a node object that starts with a command already sent to a peer
NewNodeCommanded(variant) ==
    [NewNodeReserved(variant) EXCEPT !.occupied_nodes = {},
                                     !.published = {<<NsB, InitialNodeLabel>>}]

NewNode(variant) ==
    [st |-> "running",
     variant |-> variant,
     main |-> "idle",
     lock |-> FALSE,
     exc |-> "none",
     master_alive |-> FALSE,
     last_master_heartbeat |-> 0,
     active_slaves |-> <<>>,
     navigation_graph |-> {},
     initial_x |-> (variant = "nav"),
     occupied_nodes |-> {},
     partitioning_done |-> FALSE,
     attrs |-> IF variant = "sim" THEN {"current_waypoint_index"} ELSE {},
     current_waypoint_index |-> 0,
     assigned_waypoints |-> <<>>,
     waiting |-> FALSE,
     is_master |-> FALSE,
     dynamic_recalc_timer |-> 0,
     threads |-> <<>>,
     published |-> {},
     log |-> <<>>]

OffNode == [NewNode("sim") EXCEPT !.st = "off"]

\* get_logger().info / warn / error
Log(s, tag, ns, label) ==
    [s EXCEPT !.log = Append(@, [tag |-> tag, ns |-> ns, label |-> label])]

Logged(s, tag) == \E i \in 1..Len(s.log) : s.log[i].tag = tag

\* an exception is in flight, or the thread waits for self.lock for ever
Halted(s) == s.exc # "none" \/ s.main = "blocked"

Raise(s, what) == [s EXCEPT !.exc = what]

\* "with self.lock:" in the simulator (the motion-stack node has no lock):
\*     IF Contended(s) THEN Blocked(s) ELSE Release(body(Hold(s)))
\* threading.Lock is not reentrant, so a thread that holds it and comes to
\* "with self.lock:" again waits for itself
\* a lock that the thread holding it may take again
ContendedNever(s) == s.variant = "sim" /\ s.lock /\ s.main = "blocked"

Contended(s) == s.variant = "sim" /\ s.lock

Blocked(s) == [s EXCEPT !.main = "blocked"]

Hold(s) == IF s.variant = "sim" THEN [s EXCEPT !.lock = TRUE] ELSE s

Release(s) == IF s.main = "blocked" THEN s ELSE [s EXCEPT !.lock = FALSE]

\* threading.Thread(target=self.simulate_navigation, ...).start()
StartThread(s, label) ==
    [s EXCEPT !.threads = Append(@, [label |-> label, pc |-> "sleeping"])]

NextIndex(i, len) == IF i + 1 >= len THEN 0 ELSE i + 1

(***************************************************************************)
(* SlaveNavigationSimulator.assign_next_waypoint                           *)
(***************************************************************************)
AssignNextSelf(n, s) ==
    IF "assigned_waypoints" \notin s.attrs THEN Raise(s, "AttributeError")
    ELSE IF Len(s.assigned_waypoints) = 0 THEN Log(s, "no_waypoints", n, 0)
    ELSE LET label == s.assigned_waypoints[(s.current_waypoint_index % Len(s.assigned_waypoints)) + 1]
         IN IF label \in s.occupied_nodes
            THEN [Log(s, "must_wait", n, label) EXCEPT !.waiting = TRUE,
                                                       !.attrs = @ \cup {"waiting"}]
            ELSE [StartThread(Log(s, "assigned", n, label), label) EXCEPT
                     !.occupied_nodes = @ \cup {label},
                     !.current_waypoint_index =
                         NextIndex(s.current_waypoint_index, Len(s.assigned_waypoints))]

AssignNextPeer(n, s, slave_ns) ==
    IF ~HasKey(s.active_slaves, slave_ns) THEN Log(s, "slave_not_found", slave_ns, 0)
    ELSE LET slave == Get(s.active_slaves, slave_ns)
         IN IF Len(slave.assigned_waypoints) = 0 THEN Log(s, "no_waypoints", slave_ns, 0)
            ELSE LET label == slave.assigned_waypoints[
                                  (slave.current_waypoint_index % Len(slave.assigned_waypoints)) + 1]
                 IN IF label \in s.occupied_nodes
                    THEN [Log(s, "must_wait", slave_ns, label) EXCEPT
                             !.active_slaves = Put(@, slave_ns, [slave EXCEPT !.waiting = TRUE])]
                    ELSE [Log(s, "assigned", slave_ns, label) EXCEPT
                             !.published = @ \cup {<<slave_ns, label>>},
                             !.occupied_nodes = @ \cup {label},
                             !.active_slaves = Put(@, slave_ns,
                                 [slave EXCEPT !.current_waypoint_index =
                                     NextIndex(slave.current_waypoint_index,
                                               Len(slave.assigned_waypoints))])]

assign_next_waypoint(n, s, slave_ns) ==
    IF Contended(s) THEN Blocked(s)
    ELSE Release(IF slave_ns = n THEN AssignNextSelf(n, Hold(s))
                 ELSE AssignNextPeer(n, Hold(s), slave_ns))

(***************************************************************************)
(* SlaveNavigationSimulator.assign_waiting_slaves                          *)
(***************************************************************************)
RetrySelf(n, s) ==
    IF "waiting" \notin s.attrs THEN Raise(s, "AttributeError")
    ELSE IF ~s.waiting THEN s
    ELSE IF Len(s.assigned_waypoints) = 0 THEN Log(s, "no_waypoints", n, 0)
    ELSE LET label == s.assigned_waypoints[(s.current_waypoint_index % Len(s.assigned_waypoints)) + 1]
         IN IF label \in s.occupied_nodes THEN Log(s, "still_occupied", n, label)
            ELSE [StartThread(Log(s, "assigned", n, label), label) EXCEPT
                     !.occupied_nodes = @ \cup {label},
                     !.waiting = FALSE,
                     !.current_waypoint_index =
                         NextIndex(s.current_waypoint_index, Len(s.assigned_waypoints))]

RetryPeer(n, s, slave_ns) ==
    IF ~HasKey(s.active_slaves, slave_ns) THEN s
    ELSE LET slave == Get(s.active_slaves, slave_ns)
         IN IF ~slave.waiting THEN s
            ELSE IF Len(slave.assigned_waypoints) = 0 THEN Log(s, "no_waypoints", slave_ns, 0)
            ELSE LET label == slave.assigned_waypoints[
                                  (slave.current_waypoint_index % Len(slave.assigned_waypoints)) + 1]
                 IN IF label \in s.occupied_nodes THEN Log(s, "still_occupied", slave_ns, label)
                    ELSE [Log(s, "assigned", slave_ns, label) EXCEPT
                             !.published = @ \cup {<<slave_ns, label>>},
                             !.occupied_nodes = @ \cup {label},
                             !.active_slaves = Put(@, slave_ns,
                                 [slave EXCEPT !.waiting = FALSE,
                                               !.current_waypoint_index =
                                     NextIndex(slave.current_waypoint_index,
                                               Len(slave.assigned_waypoints))])]

RECURSIVE RetryLoop(_, _, _)
RetryLoop(n, s, todo) ==
    IF todo = <<>> \/ Halted(s) THEN s
    ELSE RetryLoop(n,
                   IF Head(todo) = n /\ s.is_master THEN RetrySelf(n, s)
                   ELSE RetryPeer(n, s, Head(todo)),
                   Tail(todo))

assign_waiting_slaves(n, s) ==
    IF Contended(s) THEN Blocked(s)
    ELSE Release(RetryLoop(n, Hold(s), Sorted(Keys(s.active_slaves) \o <<n>>)))

(***************************************************************************)
(* SlaveNavigationSimulator.partition_and_assign_waypoints                 *)
(***************************************************************************)
RECURSIVE WarnNoPosition(_, _)
WarnNoPosition(s, todo) ==
    IF todo = <<>> THEN s
    ELSE WarnNoPosition(IF Head(todo).has_initial_position THEN s
                        ELSE Log(s, "position_missing", Head(todo).slave_ns, 0),
                        Tail(todo))

\* the collection that puts a guessed position where a peer's is not known
StartPositionsGuessed(s) ==
    [i \in 1..Len(s.active_slaves) |->
        IF s.active_slaves[i].has_initial_position THEN s.active_slaves[i].initial_x
        ELSE InitialNodeLabel + 1] \o <<InitialNodeLabel>>

StartPositions(s) ==
    LET known == SelectSeq(s.active_slaves, LAMBDA r : r.has_initial_position)
    IN [i \in 1..Len(known) |-> known[i].initial_x] \o <<InitialNodeLabel>>

\* lines 386-393: the old routes are dropped before the new ones are computed
\* the reset that leaves the Leader's own cursor where it was
ResetRoutesKeepsCursor(n, s) ==
    [s EXCEPT !.active_slaves = [i \in 1..Len(@) |->
                  [@[i] EXCEPT !.assigned_waypoints = <<>>,
                               !.current_waypoint_index = 0,
                               !.waiting = FALSE]],
              !.assigned_waypoints = <<>>,
              !.attrs = @ \cup {"assigned_waypoints"}]

ResetRoutes(n, s) ==
    [s EXCEPT !.active_slaves = [i \in 1..Len(@) |->
                  [@[i] EXCEPT !.assigned_waypoints = <<>>,
                               !.current_waypoint_index = 0,
                               !.waiting = FALSE]],
              !.assigned_waypoints = <<>>,
              !.attrs = @ \cup {"assigned_waypoints"},
              !.current_waypoint_index = 0]

AssignRoute(n, s, slave_ns, route) ==
    IF slave_ns = n
    THEN assign_next_waypoint(n, [s EXCEPT !.assigned_waypoints = route], n)
    ELSE IF HasKey(s.active_slaves, slave_ns)
    THEN assign_next_waypoint(n,
             [s EXCEPT !.active_slaves = Put(@, slave_ns,
                 [Get(@, slave_ns) EXCEPT !.assigned_waypoints = route])], slave_ns)
    ELSE Log(s, "slave_not_found", slave_ns, 0)

RECURSIVE AssignLoop(_, _, _, _, _)
AssignLoop(n, s, sorted, subgraphs, idx) ==
    IF idx > Len(sorted) \/ Halted(s) THEN s
    ELSE LET r == DcppRoute(subgraphs[idx])
         IN IF ~r.ok THEN Raise(s, "RouteError")
            ELSE AssignLoop(n, AssignRoute(n, s, sorted[idx], r.route), sorted, subgraphs, idx + 1)

\* the re-plan that drops the old routes before it knows it can compute new ones
PartitionResetsFirst(n, s) ==
    LET num_slaves == Len(s.active_slaves) + 1
        t == ResetRoutes(n, WarnNoPosition(s, s.active_slaves))
        g == CHOOSE x \in s.navigation_graph : TRUE
    IN IF ~t.initial_x THEN Log(t, "master_position_missing", n, 0)
       ELSE IF Len(StartPositions(t)) # num_slaves THEN Log(t, "positions_incomplete", n, 0)
       ELSE LET pr == PartitionGraph(g, num_slaves, StartPositions(t))
                all_slaves_sorted == Sorted(Keys(t.active_slaves) \o <<n>>)
            IN IF ~pr.ok THEN Log(t, "partition_failed", n, 0)
               ELSE IF Len(pr.subgraphs) # Len(all_slaves_sorted)
               THEN Log(t, "subgraph_count_mismatch", n, 0)
               ELSE LET u == AssignLoop(n, Log(t, "partitioned", n, 0),
                                        all_slaves_sorted, pr.subgraphs, 1)
                    IN IF Halted(u) THEN u ELSE [u EXCEPT !.partitioning_done = TRUE]

PartitionLocked(n, s) ==
    LET num_slaves == Len(s.active_slaves) + 1
        t == WarnNoPosition(s, s.active_slaves)
        g == CHOOSE x \in s.navigation_graph : TRUE
    IN IF ~t.initial_x THEN Log(t, "master_position_missing", n, 0)
       ELSE IF Len(StartPositions(t)) # num_slaves THEN Log(t, "positions_incomplete", n, 0)
       ELSE LET pr == PartitionGraph(g, num_slaves, StartPositions(t))
                all_slaves_sorted == Sorted(Keys(t.active_slaves) \o <<n>>)
            IN IF ~pr.ok THEN Log(t, "partition_failed", n, 0)
               ELSE IF Len(pr.subgraphs) # Len(all_slaves_sorted)
               THEN Log(t, "subgraph_count_mismatch", n, 0)
               ELSE LET u == AssignLoop(n, ResetRoutes(n, Log(t, "partitioned", n, 0)),
                                        all_slaves_sorted, pr.subgraphs, 1)
                    IN IF Halted(u) THEN u ELSE [u EXCEPT !.partitioning_done = TRUE]

SimPartition(n, s) ==
    IF s.navigation_graph = {} THEN Log(s, "graph_not_available", n, 0)
    ELSE IF Contended(s) THEN Blocked(s)
    ELSE Release(PartitionLocked(n, Hold(s)))

(***************************************************************************)
(* SlaveNavigationNode.partition_and_assign_waypoints with                 *)
(* assign_route_to_slave: self.slave_initial_positions is read at lines    *)
(* 425 and 487 and no method ever assigns it.                              *)
(***************************************************************************)
NavPartition(n, s) ==
    IF s.navigation_graph = {} THEN Log(s, "graph_not_available", n, 0)
    ELSE IF Len(s.active_slaves) > 0 THEN Raise(s, "AttributeError")
    ELSE LET g == CHOOSE x \in s.navigation_graph : TRUE
             pr == PartitionGraph(g, 1, <<InitialNodeLabel>>)
         IN IF ~pr.ok THEN Log(s, "partition_failed", n, 0)
            ELSE IF Len(pr.subgraphs) # 1 THEN Log(s, "subgraph_count_mismatch", n, 0)
            ELSE IF pr.subgraphs[1].nodes \ s.occupied_nodes = {}
            THEN [Log(s, "no_available_waypoints", n, 0) EXCEPT !.partitioning_done = TRUE]
            ELSE IF ~DcppRoute(pr.subgraphs[1]).ok THEN Raise(s, "RouteError")
            ELSE Raise(Log(s, "partitioned", n, 0), "AttributeError")

partition_and_assign_waypoints(n, s) ==
    IF s.variant = "sim" THEN SimPartition(n, s) ELSE NavPartition(n, s)

(***************************************************************************)
(* Failure detection and election, the same code in both nodes but for the *)
(* lock and the control-tick timer, which only the simulator has.          *)
(***************************************************************************)
ArmTimer(s) ==
    [s EXCEPT !.dynamic_recalc_timer = IF @ < MaxTimers THEN @ + 1 ELSE @]

\* the activation that takes the role only when a graph is there
BecomeMasterWithGraph(n, s) ==
    IF s.navigation_graph # {}
    THEN LET t == Log([s EXCEPT !.is_master = TRUE], "acting_as_master", n, 0)
             u == partition_and_assign_waypoints(n, Log(t, "published_graph", n, 0))
         IN IF ~Halted(u) /\ u.variant = "sim" THEN ArmTimer(u) ELSE u
    ELSE Log(Log(s, "acting_as_master", n, 0), "cannot_become_master", n, 0)

become_master(n, s) ==
    LET t == Log([s EXCEPT !.is_master = TRUE], "acting_as_master", n, 0)
    IN IF t.navigation_graph # {}
       THEN LET u == partition_and_assign_waypoints(n, Log(t, "published_graph", n, 0))
            IN IF ~Halted(u) /\ u.variant = "sim" THEN ArmTimer(u) ELSE u
       ELSE Log(t, "cannot_become_master", n, 0)

Candidates(n, s) == Keys(s.active_slaves) \o <<n>>

\* the other end of the sorted candidates
NewMasterLast(candidates) == Sorted(candidates)[Len(candidates)]

NewMaster(candidates) == Sorted(candidates)[1]

\* the election in which the simulator takes the other end of the sorted list
ElectNewMasterSimLast(n, s) ==
    IF Contended(s) THEN Blocked(s)
    ELSE IF Candidates(n, s) = <<>> THEN Log(s, "no_candidates", n, 0)
    ELSE LET w == IF s.variant = "sim" THEN NewMasterLast(Candidates(n, s))
                  ELSE NewMaster(Candidates(n, s))
         IN IF w = n THEN become_master(n, Log(s, "elected", n, 0))
            ELSE Log(s, "new_master_is", w, 0)

\* the election whose loser gives the role back
ElectNewMasterStepsDown(n, s) ==
    IF Contended(s) THEN Blocked(s)
    ELSE IF Candidates(n, s) = <<>> THEN Log(s, "no_candidates", n, 0)
    ELSE IF NewMaster(Candidates(n, s)) = n
    THEN become_master(n, Log(s, "elected", n, 0))
    ELSE [Log(s, "new_master_is", NewMaster(Candidates(n, s)), 0) EXCEPT !.is_master = FALSE]

elect_new_master(n, s) ==
    IF Contended(s) THEN Blocked(s)
    ELSE IF Candidates(n, s) = <<>> THEN Log(s, "no_candidates", n, 0)
    ELSE IF NewMaster(Candidates(n, s)) = n
    THEN become_master(n, Log(s, "elected", n, 0))
    ELSE Log(s, "new_master_is", NewMaster(Candidates(n, s)), 0)

\* a timeout that already counts at heartbeat_timeout itself
ExpiredAtTimeout(elapsed) == elapsed >= HeartbeatTimeout

Expired(elapsed) == elapsed > HeartbeatTimeout

\* the check that waits for a peer to take the role for as long as it knows one
CheckMasterAliveTrusting(n, s) ==
    IF s.master_alive THEN [s EXCEPT !.master_alive = FALSE]
    ELSE IF Expired(s.last_master_heartbeat) /\ s.active_slaves = <<>>
    THEN elect_new_master(n, Log(s, "master_lost", n, 0))
    ELSE s

check_master_alive(n, s) ==
    IF s.master_alive THEN [s EXCEPT !.master_alive = FALSE]
    ELSE IF Expired(s.last_master_heartbeat)
    THEN elect_new_master(n, Log(s, "master_lost", n, 0))
    ELSE s

RECURSIVE EvictLoop(_, _)
EvictLoop(s, todo) ==
    IF todo = <<>> THEN s
    ELSE EvictLoop(IF Expired(Get(s.active_slaves, Head(todo)).last_seen_time)
                   THEN [Log(s, "slave_lost", Head(todo), 0) EXCEPT
                            !.active_slaves = Del(@, Head(todo))]
                   ELSE s,
                   Tail(todo))

\* the check that re-plans as soon as it has removed a peer
CheckSlaveAliveReplans(n, s) ==
    IF Contended(s) THEN Blocked(s)
    ELSE LET u == Release(EvictLoop(Hold(s), Keys(s.active_slaves)))
         IN IF u.is_master /\ Len(u.active_slaves) # Len(s.active_slaves)
            THEN partition_and_assign_waypoints(n, u) ELSE u

check_slave_alive(n, s) ==
    IF Contended(s) THEN Blocked(s)
    ELSE Release(EvictLoop(Hold(s), Keys(s.active_slaves)))

master_heartbeat_callback(n, s) ==
    [s EXCEPT !.master_alive = TRUE, !.last_master_heartbeat = 0]

Touch(s, slave_ns) ==
    LET t == IF HasKey(s.active_slaves, slave_ns) THEN s
             ELSE [(IF s.variant = "sim" THEN Log(s, "new_slave", slave_ns, 0) ELSE s)
                      EXCEPT !.active_slaves = Append(@, SlaveState(slave_ns))]
    IN [t EXCEPT !.active_slaves = Put(@, slave_ns,
                     [Get(@, slave_ns) EXCEPT !.last_seen_time = 0])]

\* the callback without its test on the sender
UnguardedHeartbeat(n, s, data) ==
    IF Contended(s) THEN Blocked(s) ELSE Release(Touch(Hold(s), Strip(data)))

slave_heartbeat_callback(n, s, data) ==
    IF Strip(data) = n THEN s
    ELSE IF Contended(s) THEN Blocked(s)
    ELSE Release(Touch(Hold(s), Strip(data)))

dynamic_master_update(n, s) == partition_and_assign_waypoints(n, s)

(***************************************************************************)
(* Subscriptions: /navigation_graph, navigation_commands and, in the       *)
(* simulator, /navigation_status.  A message is                            *)
(*   [kind, ns, status, label, graph]                                      *)
(* with kind "ok", "bad_json" (json.loads raises), "missing_field" (a key    *)
(* is absent: KeyError) or "non_object" (valid JSON that is no object).    *)
(***************************************************************************)
navigation_graph_callback(n, s, msg) ==
    IF msg.kind = "bad_json" THEN Log(s, "graph_decode_failed", n, 0)
    ELSE LET t == [s EXCEPT !.navigation_graph = {msg.graph},
                            !.initial_x = IF s.variant = "sim" /\ InitialNodeLabel \in msg.graph.nodes
                                          THEN TRUE ELSE @]
         IN IF t.is_master /\ ~t.partitioning_done
            THEN partition_and_assign_waypoints(n, t)
            ELSE t

StatusReached(n, s, msg) ==
    LET t == IF msg.label \in s.occupied_nodes
             THEN [Log(s, "node_free", msg.ns, msg.label) EXCEPT !.occupied_nodes = @ \ {msg.label}]
             ELSE Log(s, "not_occupied", msg.ns, msg.label)
        u == IF msg.ns = n /\ ~HasKey(t.active_slaves, msg.ns)
             THEN [t EXCEPT !.waiting = FALSE, !.attrs = @ \cup {"waiting"}]
             ELSE [t EXCEPT !.active_slaves = Put(@, msg.ns,
                                [Get(@, msg.ns) EXCEPT !.waiting = FALSE])]
        v == assign_next_waypoint(n, Log(u, "reached", msg.ns, msg.label), msg.ns)
    IN IF Halted(v) THEN v ELSE assign_waiting_slaves(n, v)

\* the error branch that reserves the label instead of freeing it
StatusErrorReserves(n, s, msg) ==
    LET t == [s EXCEPT !.occupied_nodes = @ \cup {msg.label}]
    IN IF HasKey(t.active_slaves, msg.ns)
       THEN partition_and_assign_waypoints(n,
                [Log(t, "slave_removed", msg.ns, 0) EXCEPT !.active_slaves = Del(@, msg.ns)])
       ELSE t

\* the error branch that leaves the membership alone
StatusErrorKeepsMember(n, s, msg) ==
    IF msg.label \in s.occupied_nodes
    THEN [Log(s, "node_free", msg.ns, msg.label) EXCEPT !.occupied_nodes = @ \ {msg.label}]
    ELSE s

StatusError(n, s, msg) ==
    LET t == IF msg.label \in s.occupied_nodes
             THEN [Log(s, "node_free", msg.ns, msg.label) EXCEPT !.occupied_nodes = @ \ {msg.label}]
             ELSE s
    IN IF HasKey(t.active_slaves, msg.ns)
       THEN partition_and_assign_waypoints(n,
                [Log(t, "slave_removed", msg.ns, 0) EXCEPT !.active_slaves = Del(@, msg.ns)])
       ELSE t

\* the handler that takes an unknown sender for a new member
StatusLockedAdopts(n, s, msg) ==
    IF ~HasKey(s.active_slaves, msg.ns) /\ msg.ns # n
    THEN [Log(s, "unknown_slave", msg.ns, 0) EXCEPT
             !.active_slaves = Append(@, SlaveState(msg.ns))]
    ELSE s

StatusLocked(n, s, msg) ==
    IF ~HasKey(s.active_slaves, msg.ns) /\ msg.ns # n
    THEN Log(s, "unknown_slave", msg.ns, 0)
    ELSE LET t == IF HasKey(s.active_slaves, msg.ns)
                  THEN [s EXCEPT !.active_slaves = Put(@, msg.ns,
                                     [Get(@, msg.ns) EXCEPT !.last_seen_time = 0])]
                  ELSE s
         IN IF msg.status = "reached" THEN StatusReached(n, t, msg)
            ELSE IF msg.status = "error" THEN StatusError(n, Log(t, "slave_error", msg.ns, msg.label), msg)
            ELSE t

navigation_status_callback(n, s, msg) ==
    IF msg.kind \in {"bad_json", "missing_field"} THEN Log(s, "invalid_status", n, 0)
    ELSE IF msg.kind = "non_object" THEN Raise(s, "TypeError")
    ELSE IF ~s.is_master THEN s
    ELSE IF Contended(s) THEN Blocked(s)
    ELSE Release(StatusLocked(n, Hold(s), msg))

(***************************************************************************)
(* Steps.  A callback runs to its end on the main thread; when it raises,  *)
(* the exception leaves rclpy.spin and main(), and the process ends.  A    *)
(* main thread that waits for self.lock runs no further callback.          *)
(***************************************************************************)
\* a dispatch that takes no callback while a motion is being waited for
RunnableWhenIdle(n) == node[n].st = "running" /\ node[n].main = "idle"

Runnable(n) == node[n].st = "running" /\ node[n].main # "blocked"

Begin(s) == [s EXCEPT !.log = <<>>]

Finish(s) == IF s.exc # "none" THEN [s EXCEPT !.st = "crashed", !.exc = "none"] ELSE s

Event(h, n) == [h |-> h, n |-> n]

Callback(n, s, e) ==
    /\ node' = [node EXCEPT ![n] = Finish(s)]
    /\ ev' = e
    /\ UNCHANGED masterUp

HeartbeatData == Namespaces \cup {<<0>> \o NsA \o <<0>>}

MsgLabels == {1, 2}

StatusMsgs ==
    [kind : {"ok"}, ns : Namespaces, status : {"reached", "error"}, label : MsgLabels,
     graph : {TriGraph}]
    \cup [kind : {"bad_json", "missing_field", "non_object"}, ns : {NoNs}, status : {"none"},
          label : {0}, graph : {TriGraph}]

GraphMsgs ==
    [kind : {"ok"}, ns : {NoNs}, status : {"none"}, label : {0}, graph : Graphs]
    \cup [kind : {"bad_json"}, ns : {NoNs}, status : {"none"}, label : {0}, graph : {TriGraph}]

CommandMsgs ==
    [kind : {"ok"}, ns : {NoNs}, status : {"none"}, label : {InitialNodeLabel}, graph : {TriGraph}]
    \cup [kind : {"bad_json"}, ns : {NoNs}, status : {"none"}, label : {0}, graph : {TriGraph}]

MasterHeartbeat(n) ==
    /\ Runnable(n) /\ masterUp
    /\ Callback(n, master_heartbeat_callback(n, Begin(node[n])),
                Event("master_heartbeat", n))

SlaveHeartbeat(n, data) ==
    /\ Runnable(n)
    /\ Callback(n, slave_heartbeat_callback(n, Begin(node[n]), data),
                Event("slave_heartbeat", n))

\* the heartbeat_timer of m publishes on /slave_heartbeat, which every node reads
PeerHeartbeat(n, m) ==
    /\ Runnable(m)
    /\ SlaveHeartbeat(n, m)

CheckMasterAlive(n) ==
    /\ Runnable(n)
    /\ Callback(n, check_master_alive(n, Begin(node[n])),
                Event("check_master_alive", n))

CheckSlaveAlive(n) ==
    /\ Runnable(n)
    /\ Callback(n, check_slave_alive(n, Begin(node[n])),
                Event("check_slave_alive", n))

DynamicMasterUpdate(n) ==
    /\ Runnable(n) /\ node[n].dynamic_recalc_timer > 0
    /\ Callback(n, dynamic_master_update(n, Begin(node[n])),
                Event("dynamic_master_update", n))

NavigationGraph(n, msg) ==
    /\ Runnable(n)
    /\ Callback(n, navigation_graph_callback(n, Begin(node[n]), msg),
                Event("navigation_graph", n))

NavigationStatus(n, msg) ==
    /\ Runnable(n) /\ node[n].variant = "sim"
    /\ Callback(n, navigation_status_callback(n, Begin(node[n]), msg),
                Event("navigation_status", n))

\* navigation_commands_callback: the simulator starts a worker thread; the
\* motion-stack node stays in execute_navigation, spinning, until the motion ends
NavigationCommand(n, msg) ==
    /\ Runnable(n) /\ node[n].main = "idle"
    /\ Len(node[n].threads) < MaxThreads
    /\ Callback(n,
                IF msg.kind = "bad_json" THEN Log(Begin(node[n]), "command_decode_failed", n, 0)
                ELSE IF node[n].variant = "sim" THEN StartThread(Begin(node[n]), msg.label)
                ELSE [Begin(node[n]) EXCEPT
                         !.main = "navigating",
                         !.threads = Append(@, [label |-> msg.label, pc |-> "navigating"])],
                Event("navigation_commands", n))

DropThread(s, i) ==
    [s EXCEPT !.threads = [j \in 1..(Len(@) - 1) |-> IF j < i THEN @[j] ELSE @[j + 1]]]

SetPc(s, i, pc) == [s EXCEPT !.threads[i].pc = pc]

\* simulate_navigation, lines 256-263: the sleep ends, the status is published
MotionEnds(n, i) ==
    /\ node[n].st = "running" /\ i \in 1..Len(node[n].threads)
    /\ node[n].threads[i].pc = "sleeping"
    /\ LET s == Log(Begin(node[n]), "reached_label", n, node[n].threads[i].label)
       IN node' = [node EXCEPT ![n] = IF s.is_master THEN SetPc(s, i, "incr")
                                      ELSE DropThread(s, i)]
    /\ ev' = Event("simulate_navigation", n)
    /\ UNCHANGED masterUp

\* the increment of the cursor done without taking the lock
WorkerAdvanceUnlocked(n, i) ==
    /\ node[n].st = "running" /\ i \in 1..Len(node[n].threads)
    /\ node[n].threads[i].pc = "incr"
    /\ node[n].current_waypoint_index < MaxIndex
    /\ node' = [node EXCEPT ![n] = SetPc([Begin(@) EXCEPT !.current_waypoint_index = @ + 1],
                                          i, "free")]
    /\ ev' = Event("simulate_navigation", n)
    /\ UNCHANGED masterUp

\* lines 264-265
WorkerAdvance(n, i) ==
    /\ node[n].st = "running" /\ i \in 1..Len(node[n].threads)
    /\ node[n].threads[i].pc = "incr" /\ ~node[n].lock
    /\ node[n].current_waypoint_index < MaxIndex
    /\ node' = [node EXCEPT ![n] = SetPc([Begin(@) EXCEPT !.current_waypoint_index = @ + 1],
                                          i, "free")]
    /\ ev' = Event("simulate_navigation", n)
    /\ UNCHANGED masterUp

\* lines 266-269
WorkerFree(n, i) ==
    /\ node[n].st = "running" /\ i \in 1..Len(node[n].threads)
    /\ node[n].threads[i].pc = "free" /\ ~node[n].lock
    /\ LET label == node[n].threads[i].label
           s == Begin(node[n])
       IN node' = [node EXCEPT ![n] =
                      SetPc(IF label \in s.occupied_nodes
                            THEN [Log(s, "node_free", n, label) EXCEPT !.occupied_nodes = @ \ {label}]
                            ELSE s,
                            i, "assign")]
    /\ ev' = Event("simulate_navigation", n)
    /\ UNCHANGED masterUp

\* lines 270-271; an exception ends the worker thread, not the process
WorkerAssign(n, i) ==
    /\ node[n].st = "running" /\ i \in 1..Len(node[n].threads)
    /\ node[n].threads[i].pc = "assign" /\ ~node[n].lock
    /\ LET t == assign_next_waypoint(n, Begin(node[n]), n)
           s == IF Halted(t) THEN t ELSE assign_waiting_slaves(n, t)
       IN node' = [node EXCEPT ![n] =
                      DropThread(IF s.exc # "none"
                                 THEN [Log(s, "thread_exception", n, 0) EXCEPT !.exc = "none"]
                                 ELSE s, i)]
    /\ ev' = Event("simulate_navigation", n)
    /\ UNCHANGED masterUp

\* execute_navigation, lines 343-357: SUCCEEDED goes on to
\* self.current_waypoint_index += 1, an attribute this node never sets
MotionResult(n, result) ==
    /\ Runnable(n) /\ node[n].main = "navigating"
    /\ LET s == [Begin(node[n]) EXCEPT !.main = "idle", !.threads = <<>>]
           label == node[n].threads[1].label
       IN Callback(n,
                   IF result = "succeeded"
                   THEN IF "current_waypoint_index" \in s.attrs
                        THEN Log(s, "reached_label", n, label)
                        ELSE Raise(Log(s, "reached_label", n, label), "AttributeError")
                   ELSE Log(s, "navigation_failed", n, label),
                   Event("execute_navigation", n))

Older(t) == IF t + TickSeconds > AgeCap THEN AgeCap ELSE t + TickSeconds

Tick ==
    /\ node' = [n \in Namespaces |->
                   IF node[n].st # "running" THEN node[n]
                   ELSE [node[n] EXCEPT
                            !.last_master_heartbeat = Older(@),
                            !.active_slaves = [i \in 1..Len(@) |->
                                [@[i] EXCEPT !.last_seen_time = Older(@)]]]]
    /\ ev' = Event("tick", NoNs)
    /\ UNCHANGED masterUp

MasterFails ==
    /\ masterUp
    /\ masterUp' = FALSE
    /\ ev' = Event("master_fails", NoNs)
    /\ UNCHANGED node

Start(n, variant) ==
    /\ node[n].st = "off"
    /\ node' = [node EXCEPT ![n] = NewNode(variant)]
    /\ ev' = Event("start", n)
    /\ UNCHANGED masterUp

Fail(n) ==
    /\ node[n].st = "running"
    /\ node' = [node EXCEPT ![n] = OffNode]
    /\ ev' = Event("fail", n)
    /\ UNCHANGED masterUp

(***************************************************************************)
(* Spec: one process that has lost the master, with every message it       *)
(* subscribes to arriving at any time: heartbeats of the peer NsB and its  *)
(* own, route graphs, navigation commands and navigation status reports.   *)
(***************************************************************************)
Self == NsAB

OneProcess(v) == [n \in Namespaces |-> IF n = Self THEN NewNode(v) ELSE OffNode]

Init ==
    /\ \E v \in {"sim", "nav"} : node = OneProcess(v)
    /\ masterUp = FALSE
    /\ ev = Event("init", NoNs)

Next ==
    \/ Tick
    \/ \E data \in {NsB, Self} : SlaveHeartbeat(Self, data)
    \/ CheckMasterAlive(Self)
    \/ CheckSlaveAlive(Self)
    \/ DynamicMasterUpdate(Self)
    \/ \E msg \in GraphMsgs : NavigationGraph(Self, msg)
    \/ \E msg \in StatusMsgs : NavigationStatus(Self, msg)
    \/ \E msg \in CommandMsgs : NavigationCommand(Self, msg)
    \/ \E i \in 1..MaxThreads : MotionEnds(Self, i)
    \/ \E i \in 1..MaxThreads : WorkerAdvance(Self, i)
    \/ \E i \in 1..MaxThreads : WorkerFree(Self, i)
    \/ \E i \in 1..MaxThreads : WorkerAssign(Self, i)
    \/ \E result \in {"succeeded", "failed"} : MotionResult(Self, result)

Spec == Init /\ [][Next]_vars

(***************************************************************************)
(* DetectorSpec: the failure detector and the election of one process,     *)
(* with the master's and every peer's heartbeats arriving at any time.     *)
(***************************************************************************)
DetectorInit ==
    /\ \E v \in {"sim", "nav"} : \E me \in Namespaces :
           node = [n \in Namespaces |-> IF n = me THEN NewNode(v) ELSE OffNode]
    /\ masterUp = TRUE
    /\ ev = Event("init", NoNs)

DetectorNext ==
    \/ MasterFails
    \/ Tick
    \/ \E n \in Namespaces : MasterHeartbeat(n)
    \/ \E n \in Namespaces : \E data \in HeartbeatData : SlaveHeartbeat(n, data)
    \/ \E n \in Namespaces : CheckMasterAlive(n)
    \/ \E n \in Namespaces : CheckSlaveAlive(n)

DetectorSpec == DetectorInit /\ [][DetectorNext]_vars

(***************************************************************************)
(* FleetSpec: processes that start and fail, each hearing the heartbeats   *)
(* the others publish.                                                     *)
(***************************************************************************)
Fleet == {NsA, NsB}

FleetInit ==
    /\ node = [n \in Namespaces |-> OffNode]
    /\ masterUp = TRUE
    /\ ev = Event("init", NoNs)

FleetNext ==
    \/ MasterFails
    \/ Tick
    \/ \E n \in Fleet : \E v \in {"sim", "nav"} : Start(n, v)
    \/ \E n \in Fleet : Fail(n)
    \/ \E n \in Fleet : MasterHeartbeat(n)
    \/ \E n, m \in Fleet : PeerHeartbeat(n, m)
    \/ \E n \in Fleet : CheckMasterAlive(n)
    \/ \E n \in Fleet : CheckSlaveAlive(n)

FleetSpec == FleetInit /\ [][FleetNext]_vars

(***************************************************************************)
(* Properties of the election (DetectorSpec).                              *)
(***************************************************************************)
\* a comes before b in the order of Python strings: at the first position
\* where they differ a ends or has the smaller character
StrBefore(a, b) ==
    \E k \in 1..Len(b) :
        /\ \A j \in 1..(k - 1) : j <= Len(a) /\ a[j] = b[j]
        /\ (k > Len(a) \/ a[k] < b[k])

Smallest(S) == CHOOSE c \in S : \A d \in S \ {c} : StrBefore(c, d)

Range(sq) == {sq[i] : i \in 1..Len(sq)}

CandidateLists ==
    {sq \in UNION {[1..k -> Namespaces] : k \in 1..Cardinality(Namespaces)} :
        \A i, j \in 1..Len(sq) : i # j => sq[i] # sq[j]}

View(n, s) == Range(Keys(s.active_slaves)) \cup {n}

\* C3: elect_new_master picks the lexicographically smallest namespace of the
\* known live peers and self: a process that has run an election reports that
\* minimum as the winner, every process that holds the same candidate set, in
\* whatever order, computes the same winner, and a process becomes Leader in a
\* step only if its own namespace is the minimum of its candidates.
C3_ElectionResult ==
    [][\A n \in Namespaces :
           LET s == node'[n]
               w == Smallest(View(n, s))
           IN /\ Logged(s, "master_lost") =>
                     /\ \A c \in CandidateLists : Range(c) = View(n, s) => NewMaster(c) = w
                     /\ Logged(s, "elected") <=> w = n
                     /\ w # n => \E i \in 1..Len(s.log) :
                                     s.log[i].tag = "new_master_is" /\ s.log[i].ns = w
                     /\ w # n => s.is_master = node[n].is_master
              /\ (~node[n].is_master /\ s.is_master) => w = n /\ Logged(s, "elected")]_vars

\* the example of C3: self NsB knows NsA and NsAB, the winner is NsA and NsB
\* stays Follower
C3_Witness ==
    /\ ev.h = "check_master_alive" /\ ev.n = NsB
    /\ Range(Keys(node[NsB].active_slaves)) = {NsA, NsAB}
    /\ \E i \in 1..Len(node[NsB].log) :
           node[NsB].log[i].tag = "new_master_is" /\ node[NsB].log[i].ns = NsA
    /\ ~node[NsB].is_master

(***************************************************************************)
(* Properties of the failure detector (DetectorSpec).                      *)
(***************************************************************************)
ElectionHeld(s) ==
    Logged(s, "master_lost") /\ (Logged(s, "elected") \/ Logged(s, "new_master_is"))

\* C5 as claimed: at every check_master_alive tick an election is triggered
\* if and only if the last leader heartbeat is older than heartbeat_timeout.
C5_DeadIffStale ==
    [][\A n \in Namespaces :
           CheckMasterAlive(n) =>
               (ElectionHeld(node'[n]) <=> node[n].last_master_heartbeat > HeartbeatTimeout)]_vars

\* C5 as the code has it: at every check_master_alive tick an election is
\* triggered if and only if no leader heartbeat has arrived since the tick
\* before (master_alive is clear) and the last leader heartbeat is older than
\* heartbeat_timeout; a tick that finds master_alive set only clears it.
C5_DeadIffSilentAndStale ==
    [][\A n \in Namespaces :
           CheckMasterAlive(n) =>
               /\ ElectionHeld(node'[n]) <=>
                      (~node[n].master_alive /\ node[n].last_master_heartbeat > HeartbeatTimeout)
               /\ Logged(node'[n], "master_lost") => ElectionHeld(node'[n])
               /\ node[n].master_alive =>
                      node'[n] = [node[n] EXCEPT !.master_alive = FALSE, !.log = <<>>]]_vars

\* a tick that found the flag clear and the heartbeat stale has held an election
C5_Witness ==
    /\ ev.h = "check_master_alive"
    /\ ElectionHeld(node[ev.n])
    /\ node[ev.n].last_master_heartbeat > HeartbeatTimeout
    /\ ~node[ev.n].master_alive

(***************************************************************************)
(* Properties of the peer table (DetectorSpec).                            *)
(***************************************************************************)
HeartbeatsOf(p) == {p, <<0>> \o p \o <<0>>} \cap HeartbeatData

\* C6: a heartbeat from a namespace p other than self creates p's record when
\* there is none and sets its last_seen_time to now, leaving every other record
\* as it was; a heartbeat of the process's own namespace changes nothing; a
\* check_slave_alive tick removes exactly the peers whose last heartbeat is
\* older than heartbeat_timeout, each on its own age; the process's own
\* namespace is never a key of active_slaves.
C6_PeerMembership ==
    [][/\ \A n, p \in Namespaces : \A data \in HeartbeatsOf(p) :
              SlaveHeartbeat(n, data) =>
                  IF p = n THEN node'[n].active_slaves = node[n].active_slaves
                  ELSE /\ HasKey(node'[n].active_slaves, p)
                       /\ Get(node'[n].active_slaves, p).last_seen_time = 0
                       /\ \A q \in Namespaces \ {p} :
                              /\ HasKey(node'[n].active_slaves, q) <=> HasKey(node[n].active_slaves, q)
                              /\ HasKey(node[n].active_slaves, q) =>
                                     Get(node'[n].active_slaves, q) = Get(node[n].active_slaves, q)
       /\ \A n \in Namespaces :
              CheckSlaveAlive(n) =>
                  node'[n].active_slaves =
                      SelectSeq(node[n].active_slaves,
                                LAMBDA r : ~(r.last_seen_time > HeartbeatTimeout))
       /\ \A n \in Namespaces : ~HasKey(node'[n].active_slaves, n)]_vars

\* a check_slave_alive tick has removed one peer and kept another
C6_Witness ==
    /\ ev.h = "check_slave_alive"
    /\ Logged(node[ev.n], "slave_lost")
    /\ Len(node[ev.n].active_slaves) = 1
    /\ node[ev.n].active_slaves[1].last_seen_time <= HeartbeatTimeout

(***************************************************************************)
(* Convergence of the election (FleetSpec).                                *)
(***************************************************************************)
Live == {n \in Namespaces : node[n].st = "running"}

Leaders == {n \in Live : node[n].is_master}

\* every live agent knows every other live agent and nobody else, and has held
\* its latest election over that view
ElectionSettled ==
    /\ ~masterUp
    /\ Live # {}
    /\ \A n \in Live : View(n, node[n]) = Live /\ ElectionHeld(node[n])

\* C4: after the old leader is lost, once all live agents observe the same
\* candidate set and have held their election over it, exactly one live agent
\* has is_master = True, also when some agent elected itself earlier from an
\* incomplete view of its peers.
C4_OneLeaderOnceSettled == ElectionSettled => Cardinality(Leaders) = 1

(***************************************************************************)
(* Properties of the occupancy scheduler (Spec).                           *)
(***************************************************************************)
\* the labels some agent is moving to on a command it has not yet answered:
\* the Leader's own motions in progress and the commands it has sent to peers
InFlight(s) ==
    {s.threads[i].label : i \in {j \in 1..Len(s.threads) :
                                    s.threads[j].pc \in {"sleeping", "navigating"}}}
    \cup {c[2] : c \in s.published}

\* no path of either node ever reserves a label or sends a command as Leader:
\* every call of assign_next_waypoint finds self.lock held by its own thread,
\* or an attribute that was never assigned
NothingReserved ==
    \A n \in Namespaces : node[n].occupied_nodes = {} /\ node[n].published = {}

Handled(n, msg) ==
    /\ NavigationStatus(n, msg)
    /\ msg.kind = "ok"
    /\ node[n].is_master
    /\ (HasKey(node[n].active_slaves, msg.ns) \/ msg.ns = n)
    /\ node'[n].st = "running" /\ node'[n].main # "blocked"

Malformed == {msg \in StatusMsgs : msg.kind # "ok"}

\* C10: for every payload that fails to decode or lacks a required field,
\* navigation_status_callback leaves occupied_nodes, every agent record,
\* membership and role as they were, sends no command, and the process goes on.
C10_MalformedIsNoOp ==
    [][\A msg \in Malformed :
           NavigationStatus(Self, msg) =>
               /\ [node'[Self] EXCEPT !.log = <<>>] = [node[Self] EXCEPT !.log = <<>>]
               /\ Logged(node'[Self], "invalid_status")]_vars

\* C11: when the Leader receives a well-formed navigation-status whose
\* robot_namespace is neither a key of active_slaves nor its own namespace, the
\* handler logs the unknown sender and returns with occupied_nodes, every agent
\* record, the membership and the commands sent as they were, and with
\* self.lock released.
C11_UnknownSenderIgnored ==
    [][\A msg \in StatusMsgs :
           (/\ ev'.h = "navigation_status"
            /\ msg.kind = "ok"
            /\ node[Self].is_master
            /\ msg.ns # Self /\ ~HasKey(node[Self].active_slaves, msg.ns)
            /\ NavigationStatus(Self, msg)) =>
               /\ node'[Self] = [node[Self] EXCEPT
                      !.log = <<[tag |-> "unknown_slave", ns |-> msg.ns, label |-> 0]>>]
               /\ ~node'[Self].lock
               /\ node'[Self].st = "running" /\ node'[Self].main # "blocked"]_vars

\* a Leader that knows one peer has ignored the report of another namespace
C11_Witness ==
    /\ ev.h = "navigation_status" /\ ev.n = Self
    /\ node[Self].is_master
    /\ Keys(node[Self].active_slaves) = <<NsB>>
    /\ node[Self].log = <<[tag |-> "unknown_slave", ns |-> NsA, label |-> 0]>>
    /\ ~node[Self].lock

(***************************************************************************)
(* Properties of the Leader's activation (Spec).                           *)
(***************************************************************************)
\* the process n has just won an election held without a route graph
WonWithoutGraph(n) ==
    /\ ev.h = "check_master_alive" /\ ev.n = n
    /\ Logged(node[n], "elected")
    /\ node[n].navigation_graph = {}

\* C12 as claimed: an agent that wins an election while navigation_graph is
\* None does not become Leader: is_master stays False.
C12_NoGraphNoLeader ==
    \A n \in Namespaces : WonWithoutGraph(n) => ~node[n].is_master

\* C12 as the code has it: an agent that wins an election while
\* navigation_graph is None becomes Leader all the same (is_master = True); it
\* logs that the graph is not available and changes nothing else: no graph is
\* published, no partition is run, no control tick is armed.
C12_NoGraphLeaderStands ==
    [][\A n \in Namespaces :
           WonWithoutGraph(n)' =>
               node'[n] = [node[n] EXCEPT
                   !.is_master = TRUE,
                   !.log = <<[tag |-> "master_lost", ns |-> n, label |-> 0],
                             [tag |-> "elected", ns |-> n, label |-> 0],
                             [tag |-> "acting_as_master", ns |-> n, label |-> 0],
                             [tag |-> "cannot_become_master", ns |-> n, label |-> 0]>>]]_vars

\* a Follower has won an election without a graph and is Leader
C12_Witness ==
    /\ WonWithoutGraph(Self)
    /\ node[Self].is_master
    /\ Logged(node[Self], "cannot_become_master")
    /\ node[Self].dynamic_recalc_timer = 0

PartitionOutcomes ==
    {"master_position_missing", "positions_incomplete", "partition_failed",
     "subgraph_count_mismatch", "no_available_waypoints", "partitioned"}

\* partition_and_assign_waypoints has gone past its test of the graph in the
\* handler that led to s
PartitionRan(s) == \E tag \in PartitionOutcomes : Logged(s, tag)

\* a Leader without a graph publishes no graph, runs no partition and sends
\* no navigation command
IdleWithoutGraph(n) ==
    (node[n].is_master /\ node[n].navigation_graph = {} /\ node'[n].navigation_graph = {}) =>
        /\ ~Logged(node'[n], "published_graph") /\ ~PartitionRan(node'[n])
        /\ node'[n].published = node[n].published
        /\ ~Logged(node'[n], "assigned")

\* the first route graph that reaches a Leader makes it run the partition
ActivatedByGraph(n) ==
    (/\ ev'.h = "navigation_graph" /\ ev'.n = n
     /\ node[n].is_master
     /\ node[n].navigation_graph = {} /\ node'[n].navigation_graph # {}) =>
        \/ PartitionRan(node'[n])
        \/ node'[n].main = "blocked"
        \/ node'[n].st = "crashed"

\* a Leader that has a graph and goes on running has its control tick armed
TickArmed(n) ==
    (/\ node'[n].st = "running" /\ node'[n].main # "blocked"
     /\ node'[n].is_master /\ node'[n].navigation_graph # {}) =>
        node'[n].dynamic_recalc_timer > 0

\* C13: a Leader elected without a graph publishes no graph, runs no partition
\* and sends no command until the first route graph arrives; the arrival of
\* that graph makes it run partition_and_assign_waypoints; and from then on it
\* has the periodic control tick of a Leader that had a graph when elected.
C13_OperationalOnceGraphArrives ==
    [][\A n \in Namespaces : IdleWithoutGraph(n) /\ ActivatedByGraph(n) /\ TickArmed(n)]_vars

\* the step is a Leader's handling of a heartbeat from a peer it had not seen,
\* or of a check_slave_alive that removed a peer
MembershipEvent(n) ==
    /\ ev'.n = n /\ ev'.h \in {"slave_heartbeat", "check_slave_alive"}
    /\ node[n].is_master
    /\ Range(Keys(node'[n].active_slaves)) # Range(Keys(node[n].active_slaves))

\* partition_and_assign_waypoints was called in the handler that led to s
PartitionCalled(s) ==
    \/ PartitionRan(s) \/ Logged(s, "graph_not_available")
    \/ s.main = "blocked" \/ s.st = "crashed"

C15_TickArmedWhileLeading ==
    [][\A n \in Namespaces :
          /\ (node'[n].st = "running" /\ node'[n].main # "blocked" /\ node'[n].is_master) =>
                node'[n].dynamic_recalc_timer > 0
          /\ (ev'.h = "dynamic_master_update" /\ ev'.n = n) => PartitionCalled(node'[n])]_vars

(***************************************************************************)
(* One process under the scheduling of the code, in an environment that    *)
(* sends heartbeats and graphs and nothing else: the clock advances and    *)
(* the rclpy timers (check_master_alive, check_slave_alive, the control    *)
(* tick once created) keep firing while the executor runs.                 *)
(***************************************************************************)
LiveNext ==
    \/ Tick
    \/ SlaveHeartbeat(Self, NsB)
    \/ CheckMasterAlive(Self)
    \/ CheckSlaveAlive(Self)
    \/ DynamicMasterUpdate(Self)
    \/ \E msg \in GraphMsgs : NavigationGraph(Self, msg)

\* weak fairness of a timer whose handler can run the partition, as a
\* condition on states: again and again the timer is not able to fire or its
\* handler has just run
LiveSpec ==
    /\ Init /\ [][LiveNext]_vars
    /\ WF_vars(Tick)
    /\ WF_vars(CheckSlaveAlive(Self))
    /\ []<>(~Runnable(Self) \/ ev = Event("check_master_alive", Self))
    /\ []<>(\/ ~Runnable(Self) \/ node[Self].dynamic_recalc_timer = 0
            \/ ev = Event("dynamic_master_update", Self))

\* the agents the Leader n plans for
Member(n, a) == a = n \/ HasKey(node[n].active_slaves, a)

\* n is Leader, has a graph with a node for each agent and knows where it starts
LeaderReady(n) ==
    /\ node[n].st = "running" /\ node[n].is_master
    /\ node[n].navigation_graph # {}
    /\ \A g \in node[n].navigation_graph : Cardinality(g.nodes) >= Len(node[n].active_slaves) + 1
    /\ node[n].variant = "sim" => node[n].initial_x

\* the Leader n has sent a its target: a message on a's navigation_commands
\* topic or, for n itself, the start of its own simulate_navigation
CommandedBy(n, a) ==
    \/ \E label \in Labels : <<a, label>> \in node[n].published
    \/ a = n /\ \E i \in 1..Len(node[n].log) :
                    node[n].log[i].tag = "assigned" /\ node[n].log[i].ns = n

\* C16: once an agent is Leader with a graph large enough and its start
\* position known, every agent it plans for (itself and each peer that keeps
\* being a member) eventually gets a navigation command from it.
C16_EveryAgentCommanded ==
    \A a \in {Self, NsB} :
        (LeaderReady(Self) /\ Member(Self, a)) ~> (CommandedBy(Self, a) \/ ~Member(Self, a))

AbortReasons ==
    {"graph_not_available", "master_position_missing", "positions_incomplete",
     "partition_failed", "subgraph_count_mismatch"}

\* partition_and_assign_waypoints returned from one of its error branches
Aborted(s) == \E tag \in AbortReasons : Logged(s, tag)

InMotion(n) ==
    /\ node[n].st = "running"
    /\ \/ node[n].main = "navigating"
       \/ \E i \in 1..Len(node[n].threads) : node[n].threads[i].pc = "sleeping"

SharedState(s) ==
    [occupied_nodes |-> s.occupied_nodes,
     slaves |-> [i \in 1..Len(s.active_slaves) |->
                    <<s.active_slaves[i].slave_ns, s.active_slaves[i].assigned_waypoints,
                      s.active_slaves[i].current_waypoint_index, s.active_slaves[i].waiting>>],
     own |-> <<s.assigned_waypoints, s.current_waypoint_index, s.waiting>>]

AttemptsFreeTarget(n) ==
    /\ ev'.n = n /\ Logged(node'[n], "partitioned")
    /\ node'[n].assigned_waypoints # <<>>
    /\ node'[n].assigned_waypoints[1] \notin node[n].occupied_nodes

\* C21: an assignment attempted for an agent whose route is not empty and
\* whose entry at the cursor is a free label adds the label to occupied_nodes,
\* sends the one command for it (for the Leader itself: starts its own
\* motion) and moves the cursor on by one, to 0 after the last entry.
C21_FreeTargetAssigned ==
    [][\A n \in Namespaces :
          AttemptsFreeTarget(n) =>
              LET route == node'[n].assigned_waypoints
              IN /\ route[1] \in node'[n].occupied_nodes
                 /\ \E i \in 1..Len(node'[n].threads) : node'[n].threads[i].label = route[1]
                 /\ Logged(node'[n], "assigned")
                 /\ node'[n].current_waypoint_index = NextIndex(0, Len(route))]_vars

\* the step is a re-plan of the Leader n that got past partition and count
\* test, that is to the reset of the routes and the assignments after it
Replanned(n) == ev'.n = n /\ Logged(node'[n], "partitioned") /\ node'[n].variant = "sim"

\* the routes of the new plan are in place: after the reset the Leader's own
\* route is empty or the circuit of its sub-graph, its cursor is where the
\* first assignment left it, and every peer has its cursor at 0 or 1 and is
\* not waiting
RoutesReplaced(n) ==
    Replanned(n) =>
        /\ "assigned_waypoints" \in node'[n].attrs
        /\ node'[n].current_waypoint_index \in {0, 1}
        /\ \A g \in node'[n].navigation_graph :
               node'[n].assigned_waypoints # <<>> =>
                   \E sg \in {Induced(g, vs) : vs \in SUBSET g.nodes} :
                       node'[n].assigned_waypoints = DcppRoute(sg).route
        /\ \A i \in 1..Len(node'[n].active_slaves) :
               /\ node'[n].active_slaves[i].current_waypoint_index \in {0, 1}
               /\ ~node'[n].active_slaves[i].waiting

\* the Leader itself is Idle in the new plan: its waiting flag is false and
\* the only motion it may be in is the one the new plan has just started
LeaderIdle(n) ==
    Replanned(n) =>
        /\ "waiting" \in node'[n].attrs /\ ~node'[n].waiting
        /\ \A i \in 1..Len(node'[n].threads) :
               /\ Logged(node'[n], "assigned")
               /\ node'[n].threads[i].label = node'[n].assigned_waypoints[1]
               /\ node'[n].threads[i].pc = "sleeping"

\* C23: a re-plan that succeeds replaces the route of every agent it plans
\* for, the Leader included, and leaves each of them with the cursor at 0 and
\* Idle (not waiting, no motion of an earlier plan still in progress) when
\* the first assignment of the new plan is attempted.
C23_ReplanResetsEveryAgent ==
    [][\A n \in Namespaces : RoutesReplaced(n) /\ LeaderIdle(n)]_vars

\* the handler that led to node'[n] called the re-plan with a graph while a
\* member of the candidate set had no known start position
MissingStart(n) ==
    /\ ev'.n = n
    /\ \/ Logged(node'[n], "position_missing")
       \/ Logged(node'[n], "master_position_missing")
       \/ /\ node[n].variant = "nav" /\ node'[n].active_slaves # <<>>
          /\ \/ ev'.h = "check_master_alive" /\ Logged(node'[n], "published_graph")
             \/ /\ ev'.h = "navigation_graph" /\ ~Logged(node'[n], "graph_decode_failed")
                /\ node[n].is_master /\ ~node[n].partitioning_done

\* the handler produced no partition and left every route and command alone
NoPlan(n) ==
    /\ ~Logged(node'[n], "partitioned") /\ ~Logged(node'[n], "assigned")
    /\ node'[n].assigned_waypoints = node[n].assigned_waypoints
    /\ node'[n].current_waypoint_index = node[n].current_waypoint_index
    /\ \A i \in 1..Len(node'[n].active_slaves) :
          LET r == node'[n].active_slaves[i]
          IN HasKey(node[n].active_slaves, r.slave_ns) =>
                r.assigned_waypoints = Get(node[n].active_slaves, r.slave_ns).assigned_waypoints
    /\ node'[n].published = node[n].published
    /\ node'[n].threads = node[n].threads
    /\ ~node'[n].partitioning_done \/ node[n].partitioning_done

LineGraph == [nodes |-> {1, 2}, edges |-> {<<1, 2>>}]

SolverGraphMsgs ==
    [kind : {"ok"}, ns : {NoNs}, status : {"none"}, label : {0}, graph : Graphs \cup {LineGraph}]

SolverNext ==
    \/ Tick
    \/ SlaveHeartbeat(Self, NsB)
    \/ CheckMasterAlive(Self)
    \/ CheckSlaveAlive(Self)
    \/ DynamicMasterUpdate(Self)
    \/ \E msg \in SolverGraphMsgs : NavigationGraph(Self, msg)

SolverSpec == Init /\ [][SolverNext]_vars

\* the handler that led to node'[n] ran the re-plan of a Leader alone on a
\* graph for which the solver fails
SolverFailed(n) ==
    /\ ev'.n = n /\ node'[n].is_master /\ node'[n].active_slaves = <<>>
    /\ node'[n].navigation_graph = {LineGraph}
    /\ ~DcppRoute(PartitionGraph(LineGraph, 1, <<InitialNodeLabel>>).subgraphs[1]).ok
    /\ \/ ev'.h = "dynamic_master_update"
       \/ ev'.h = "check_master_alive" /\ Logged(node'[n], "published_graph")
       \/ ev'.h = "navigation_graph" /\ node[n].is_master /\ ~node[n].partitioning_done

\* C26: when the circuit solver fails for one agent's sub-graph during a
\* re-plan, that agent gets no assignment and the re-plan still completes:
\* the handler returns, the process goes on running and the partition is
\* marked done.
C26_RouteFailureIsolated ==
    [][\A n \in Namespaces : SolverFailed(n) =>
          /\ node'[n].st = "running" /\ node'[n].main # "blocked"
          /\ ~Logged(node'[n], "assigned")
          /\ node'[n].partitioning_done]_vars


\* the handler that led to node'[n] was the Leader's handling of an 'error'
\* report
ErrorHandled(n) ==
    ev'.n = n /\ ev'.h = "navigation_status" /\ Logged(node'[n], "slave_error")

BecomesLeader(n) ==
    /\ ev'.n = n /\ ~node[n].is_master /\ node'[n].is_master

\* C28: at every step that makes a Follower the Leader, occupied_nodes is
\* empty when become_master is entered, hence before the first partition and
\* assignment of that leadership: nothing a previous Leader reserved is there.
C28_NewLeaderStartsEmpty ==
    [][\A n \in Namespaces : BecomesLeader(n) =>
          /\ Logged(node'[n], "acting_as_master")
          /\ node[n].occupied_nodes = {}
          /\ node'[n].occupied_nodes \subseteq
                {node'[n].threads[i].label : i \in 1..Len(node'[n].threads)}]_vars

\* a Follower that holds the graph has won the election and gone on to its
\* first partition
C28_Witness ==
    /\ ev = Event("check_master_alive", Self) /\ node[Self].is_master
    /\ Logged(node[Self], "acting_as_master") /\ Logged(node[Self], "published_graph")
    /\ node[Self].occupied_nodes = {}


SilentCheck(n) ==
    /\ ev' = Event("check_master_alive", n)
    /\ node[n].st = "running" /\ ~node[n].is_master
    /\ ~node[n].master_alive /\ Expired(node[n].last_master_heartbeat)

\* the election was run in the handler that led to node'[n], over the
\* candidates that n knew when the handler began
ElectionRerun(n) ==
    LET winner == NewMaster(Candidates(n, node[n]))
    IN /\ Logged(node'[n], "master_lost")
       /\ IF winner = n
          THEN Logged(node'[n], "elected") /\ node'[n].is_master
          ELSE /\ \E i \in 1..Len(node'[n].log) :
                    node'[n].log[i].tag = "new_master_is" /\ node'[n].log[i].ns = winner
               /\ ~node'[n].is_master
               /\ HasKey(node[n].active_slaves, winner)

\* C30: a Follower that has declared a peer the winner and hears no leader
\* heartbeat runs the election again at its next liveness check, one check
\* period later, and at every check after it while the silence lasts, each
\* time over the candidates it knows at that time: a winner evicted in the
\* meantime is not a candidate and is not chosen.
C30_ReelectionWhileSilent ==
    [][\A n \in Namespaces : SilentCheck(n) => ElectionRerun(n)]_vars

\* a Follower has declared a peer the winner and the master is still silent:
\* its next liveness check runs the election again
C30_Witness ==
    \E n \in Namespaces :
        /\ ev = Event("check_master_alive", n) /\ node[n].st = "running"
        /\ Logged(node[n], "master_lost") /\ Logged(node[n], "new_master_is")
        /\ ~node[n].is_master
        /\ ~node[n].master_alive /\ Expired(node[n].last_master_heartbeat)


(***************************************************************************)
(* TwinSpec: a SlaveNavigationSimulator and a SlaveNavigationNode started  *)
(* together under the same namespace and fed the same master heartbeats,   *)
(* peer heartbeats and timer ticks.  The two node objects are kept in the  *)
(* slots TwinSim and TwinNav of node; both run as namespace TwinNs.        *)
(***************************************************************************)
TwinSim == NsA
TwinNav == NsB
TwinNs == NsAB

\* the callback result s taken by the twin in slot k, if that twin still
\* dispatches callbacks
TwinRun(k, s) == IF Runnable(k) THEN Finish(s) ELSE node[k]

TwinInit ==
    /\ node = [n \in Namespaces |-> IF n = TwinSim THEN NewNode("sim")
                                    ELSE IF n = TwinNav THEN NewNode("nav") ELSE OffNode]
    /\ masterUp = TRUE
    /\ ev = Event("init", NoNs)

TwinMasterHeartbeat ==
    /\ masterUp
    /\ node' = [node EXCEPT
           ![TwinSim] = TwinRun(TwinSim, master_heartbeat_callback(TwinNs, Begin(node[TwinSim]))),
           ![TwinNav] = TwinRun(TwinNav, master_heartbeat_callback(TwinNs, Begin(node[TwinNav])))]
    /\ ev' = Event("master_heartbeat", TwinNs)
    /\ UNCHANGED masterUp

TwinSlaveHeartbeat(data) ==
    /\ node' = [node EXCEPT
           ![TwinSim] = TwinRun(TwinSim, slave_heartbeat_callback(TwinNs, Begin(node[TwinSim]), data)),
           ![TwinNav] = TwinRun(TwinNav, slave_heartbeat_callback(TwinNs, Begin(node[TwinNav]), data))]
    /\ ev' = Event("slave_heartbeat", TwinNs)
    /\ UNCHANGED masterUp

TwinCheckMasterAlive ==
    /\ node' = [node EXCEPT
           ![TwinSim] = TwinRun(TwinSim, check_master_alive(TwinNs, Begin(node[TwinSim]))),
           ![TwinNav] = TwinRun(TwinNav, check_master_alive(TwinNs, Begin(node[TwinNav])))]
    /\ ev' = Event("check_master_alive", TwinNs)
    /\ UNCHANGED masterUp

TwinCheckSlaveAlive ==
    /\ node' = [node EXCEPT
           ![TwinSim] = TwinRun(TwinSim, check_slave_alive(TwinNs, Begin(node[TwinSim]))),
           ![TwinNav] = TwinRun(TwinNav, check_slave_alive(TwinNs, Begin(node[TwinNav])))]
    /\ ev' = Event("check_slave_alive", TwinNs)
    /\ UNCHANGED masterUp

TwinNext ==
    \/ MasterFails
    \/ Tick
    \/ TwinMasterHeartbeat
    \/ \E data \in HeartbeatData : TwinSlaveHeartbeat(data)
    \/ TwinCheckMasterAlive
    \/ TwinCheckSlaveAlive

TwinSpec == TwinInit /\ [][TwinNext]_vars

\* what the failure detector and the election of one node object hold and
\* what its last handler decided
ElectionTags == {"master_lost", "elected", "new_master_is", "no_candidates",
                 "acting_as_master", "cannot_become_master", "slave_lost"}

DetectorView(s) ==
    [st |-> s.st, main |-> s.main,
     master_alive |-> s.master_alive,
     last_master_heartbeat |-> s.last_master_heartbeat,
     peers |-> [i \in 1..Len(s.active_slaves) |->
                  <<s.active_slaves[i].slave_ns, s.active_slaves[i].last_seen_time>>],
     is_master |-> s.is_master,
     decided |-> SelectSeq(s.log, LAMBDA l : l.tag \in ElectionTags)]

C34_NoSelfDeadlock ==
    \A n \in Namespaces : node[n].main # "blocked"


\* C37: under a Leader that stays alive the elections come to an end; in
\* particular an agent that is the Leader already does not judge the leader
\* dead again and run become_master a second time in the same leadership.
C37_ActivationOnce ==
    [][\A n \in Namespaces :
          node[n].is_master =>
              ~(ev' = Event("check_master_alive", n) /\ Logged(node'[n], "master_lost")
                /\ Logged(node'[n], "acting_as_master"))]_vars


\* C38: is_master, once True, stays True for as long as the process lives,
\* whatever the agent hears afterwards: a peer with a smaller namespace, an
\* election that names that peer, a leader heartbeat of another agent.
C38_RoleNeverRelinquished ==
    [][\A n \in Namespaces :
          (node[n].is_master /\ node'[n].st # "off") => node'[n].is_master]_vars

\* a Leader has held an election that named a peer with a smaller namespace
\* and is the Leader still
C38_Witness ==
    \E n \in Namespaces :
        /\ ev = Event("check_master_alive", n) /\ node[n].st = "running"
        /\ node[n].is_master
        /\ \E i \in 1..Len(node[n].log) :
              /\ node[n].log[i].tag = "new_master_is"
              /\ StrBefore(node[n].log[i].ns, n)
              /\ HasKey(node[n].active_slaves, node[n].log[i].ns)


(***************************************************************************)
(* CursorSpec: one process, its motions and its re-plans, with a route     *)
(* graph among the inputs whose closed route has two entries only.         *)
(***************************************************************************)
\* one node with an edge to itself: the closed route is <<1, 1>>
LoopGraph == [nodes |-> {1}, edges |-> {<<1, 1>>}]

CursorGraphMsgs ==
    [kind : {"ok"}, ns : {NoNs}, status : {"none"}, label : {0}, graph : Graphs \cup {LoopGraph}]

CursorNext ==
    \/ Tick
    \/ CheckMasterAlive(Self)
    \/ DynamicMasterUpdate(Self)
    \/ \E msg \in CursorGraphMsgs : NavigationGraph(Self, msg)
    \/ \E msg \in CommandMsgs : NavigationCommand(Self, msg)
    \/ \E i \in 1..MaxThreads : MotionEnds(Self, i)
    \/ \E i \in 1..MaxThreads : WorkerAdvance(Self, i)
    \/ \E i \in 1..MaxThreads : WorkerFree(Self, i)
    \/ \E i \in 1..MaxThreads : WorkerAssign(Self, i)
    \/ \E result \in {"succeeded", "failed"} : MotionResult(Self, result)

CursorSpec == Init /\ [][CursorNext]_vars

CursorInRoute(index, route) == route # <<>> => (0 <= index /\ index < Len(route))

\* C40: for every agent with a route, the Leader's own record included, the
\* cursor is an index of the route: 0 <= current_waypoint_index <
\* len(assigned_waypoints).
C40_CursorInRange ==
    \A n \in Namespaces :
        /\ CursorInRoute(node[n].current_waypoint_index, node[n].assigned_waypoints)
        /\ \A i \in 1..Len(node[n].active_slaves) :
              CursorInRoute(node[n].active_slaves[i].current_waypoint_index,
                            node[n].active_slaves[i].assigned_waypoints)

\* a Leader holds a route while a worker thread that has already advanced the
\* cursor is still alive
C40_Witness ==
    /\ node[Self].is_master /\ node[Self].assigned_waypoints # <<>>
    /\ \E i \in 1..Len(node[Self].threads) : node[Self].threads[i].pc = "free"


====
